---- MODULE Spec2Model ----
(***************************************************************************)
(* Model of two parts of the relayer:                                      *)
(*   - ReceivePacketRelayer::relay_packet                                  *)
(*       (relayer-next/src/impls/packet_relayers/receive_packet.rs)        *)
(*   - PsqlChain / PsqlLightClient                                         *)
(*       (relayer/src/chain/cosmos/psql.rs)                                *)
(*                                                                         *)
(* relay_packet is an async fn: every `.await` is a suspension point, so   *)
(* one call is a sequence of steps (status query, message build, send)     *)
(* that interleave with other calls and with the two chains.  The status   *)
(* querier, the message builder, the message sender and the two chains are *)
(* trait objects whose implementations are not part of the two files; they *)
(* are modelled from the specification (sections 4.1, 4.3, 4.5).           *)
(***************************************************************************)
EXTENDS Naturals, Sequences, FiniteSets

\* ---------------------------------------------------------------- bounds
MaxHeight == 2
MaxCalls == 2

\* The two concurrent logical tasks and the packets they may relay.
Tasks == {1, 2}
Packets == {1, 2}
Heights == 1..MaxHeight

VARIABLES
    \* source chain
    srcHeight,      \* the source chain's own current height
    commitAt,       \* packet -> height at which its commitment was written (0: none)
    \* destination chain
    trusted,        \* source heights the destination's on-chain client trusts
    receipts,       \* packets with a receipt on the destination
    \* relay_packet calls
    call,           \* task -> the call's position and what it observed
    packet,         \* slot -> the `packet` argument of the call
    source_height,  \* slot -> the local `source_height`
    message,        \* slot -> the local `message`
    calls,          \* number of relay_packet calls started so far
    \* PsqlChain
    psql,           \* "none" | "up" | "down"
    bootReq,        \* configuration of the last bootstrap
    bootLog,        \* external interactions of the last bootstrap, in order
    bootRet,        \* what the last bootstrap returned
    req,            \* last operation called on PsqlChain
    innerLog,       \* calls that operation made on the wrapped CosmosSdkChain
    innerRet,       \* what the wrapped chain returned
    ret,            \* what PsqlChain returned
    bootIn,         \* what the database and the wrapped chain answered to
                    \* the last bootstrap
    \* PsqlLightClient
    lcBusy,         \* light client -> caller holding it mutably (0: nobody)
    lcCall,         \* caller -> its call on a PsqlLightClient
    lcStore         \* light client -> latest height in its trusted store

relayVars == <<srcHeight, commitAt, trusted, receipts, call, packet,
               source_height, message, calls>>
psqlVars == <<psql, bootReq, bootLog, bootRet, req, innerLog, innerRet, ret,
              bootIn, lcBusy, lcCall, lcStore>>
lcVars == <<lcBusy, lcCall, lcStore>>
vars == <<srcHeight, commitAt, trusted, receipts, call, packet,
          source_height, message, calls,
          psql, bootReq, bootLog, bootRet, req, innerLog, innerRet, ret,
          bootIn, lcBusy, lcCall, lcStore>>

\* ---------------------------------------------------------------- values
Ok(v) == [ok |-> TRUE, val |-> v, err |-> "none"]
Err(e) == [ok |-> FALSE, val |-> 0, err |-> e]
NoRes == [ok |-> FALSE, val |-> 0, err |-> "pending"]

NoMsg == [packet |-> 0, height |-> 0]

IdleCall == [pc |-> "idle", argPacket |-> 0, trace |-> <<>>,
             statusRet |-> NoRes, buildArg |-> NoMsg, builtMsg |-> NoRes,
             sentMsg |-> NoMsg, sentTo |-> "none", subs |-> 0,
             chainOk |-> FALSE, sendRet |-> NoRes,
             droppedAt |-> "none", result |-> NoRes]

\* ------------------------------------------------ chains (environment)
\* A commitment written at height c is present in the source chain's state
\* at every height from c on.
CommitmentExists(p, h) == p \in Packets /\ commitAt[p] # 0 /\ commitAt[p] <= h

\* ChainStatusQuerier::query_chain_status on the source chain context: the
\* chain's own current height, or a transport failure.
query_chain_status == {Ok([height |-> srcHeight]), Err("QueryError")}

\* ReceivePacketMessageBuilder::build_receive_packet_message(height, packet):
\* the message carries the packet and a commitment proof bound to `height`.
build_receive_packet_message(h, p) ==
    {Err("ProofQueryError")} \cup
    (IF CommitmentExists(p, h)
     THEN {Ok([packet |-> p, height |-> h])}
     ELSE {Err("PacketNotFound")})

\* The destination chain executes a receive-packet message: the proof is
\* verified against the consensus state its client holds for the proof
\* height, and a packet is received at most once.
DstAccepts(m) ==
    /\ m.packet \in Packets
    /\ m.height \in trusted
    /\ CommitmentExists(m.packet, m.height)
    /\ m.packet \notin receipts

\* ------------------------------------------------ relay_packet (the code)
\* Variant: the locals are kept in one place shared by all calls.
LocalSlot_Shared(t) == 1

\* The locals of one call live in that call's own future; the relayer struct
\* has no fields.
LocalSlot(t) == t

\* Variant: a height obtained earlier by a call is reused when there is one.
HeightForBuild_Reuse(status) ==
    IF \E s \in Tasks : source_height[s] # 0
    THEN source_height[CHOOSE s \in Tasks : source_height[s] # 0]
    ELSE status.height

\* `.height()` of the status returned by the query (lines 26-30).
HeightForBuild(status) == status.height

\* The sender is the context's sender for DestinationTarget (lines 20-21,
\* 36-38).
SenderTarget == "destination"

\* Variant: the message is stamped again with the source's current height
\* before it is sent.
MessageToSend_Restamped(m) == [m EXCEPT !.height = srcHeight]

\* The message passed to send_message is the local `message` (line 38).
MessageToSend(m) == m

\* Variant: the error of the failed step is replaced by a generic one.
PropagateErr_Wrapped(e) == "RelayError"

\* `?` returns the error of the failed step to the caller (lines 29, 34, 39).
PropagateErr(e) == e

\* Variant: a failed build does not end the call; the send is still issued.
NextStep_SendAfterBuildErr(step, ok) ==
    IF step = "status" THEN (IF ok THEN "build" ELSE "done")
    ELSE IF step = "build" THEN "send"
    ELSE "done"

\* Variant: the send is issued right after the status query, without a build.
NextStep_SkipBuild(step, ok) ==
    IF ~ok THEN "done"
    ELSE IF step = "status" THEN "send"
    ELSE "done"

\* Variant: the send is issued before the build.
NextStep_SendFirst(step, ok) ==
    IF step = "status" THEN (IF ok THEN "send" ELSE "done")
    ELSE IF step = "send" THEN "build"
    ELSE "done"

\* Control flow of relay_packet: what follows the completion of a step.
NextStep(step, ok) ==
    IF ~ok THEN "done"
    ELSE IF step = "status" THEN "build"
    ELSE IF step = "build" THEN "send"
    ELSE "done"

\* Variant: the engine skips the send when the destination already holds
\* the packet's receipt.
Enter_Dedup(c, step, p, h, m, res) ==
    IF step = "build"
    THEN [c EXCEPT !.pc = "build", !.trace = Append(@, "build"),
                   !.buildArg = [packet |-> p, height |-> h]]
    ELSE IF step = "send" /\ m.packet \notin receipts
    THEN [c EXCEPT !.pc = "send", !.trace = Append(@, "send"),
                   !.sentMsg = m, !.sentTo = SenderTarget]
    ELSE [c EXCEPT !.pc = "done", !.result = Ok(0)]

\* The call record after the call moves on to `step`, given the values of its
\* locals at that moment and the value it returns if it ends here.
Enter(c, step, p, h, m, res) ==
    IF step = "build"
    THEN [c EXCEPT !.pc = "build", !.trace = Append(@, "build"),
                   !.buildArg = [packet |-> p, height |-> h]]
    ELSE IF step = "send"
    THEN [c EXCEPT !.pc = "send", !.trace = Append(@, "send"),
                   !.sentMsg = MessageToSend(m), !.sentTo = SenderTarget]
    ELSE [c EXCEPT !.pc = "done", !.result = res]

ResultOf(out) == IF out.ok THEN Ok(0) ELSE Err(PropagateErr(out.err))

\* relay_packet(context, packet) is called: the status query is issued
\* (lines 25-29).
RelayPacket(t, p) ==
    /\ call[t].pc = "idle"
    /\ calls < MaxCalls
    /\ calls' = calls + 1
    /\ packet' = [packet EXCEPT ![LocalSlot(t)] = p]
    /\ call' = [call EXCEPT ![t] =
                  [IdleCall EXCEPT !.pc = "status", !.argPacket = p,
                                   !.trace = <<"status">>]]
    /\ UNCHANGED <<srcHeight, commitAt, trusted, receipts, source_height,
                   message>>
    /\ UNCHANGED psqlVars

\* The status query completes (lines 26-34).
StatusReturns(t) ==
    /\ call[t].pc = "status"
    /\ \E out \in query_chain_status :
         LET s == LocalSlot(t)
             sh == IF out.ok
                   THEN [source_height EXCEPT ![s] = HeightForBuild(out.val)]
                   ELSE source_height
             c == [call[t] EXCEPT
                     !.statusRet = out,
                     !.trace = Append(@, IF out.ok THEN "status_ok"
                                                   ELSE "status_err")]
         IN /\ source_height' = sh
            /\ call' = [call EXCEPT ![t] =
                          Enter(c, NextStep("status", out.ok), packet[s],
                                sh[s], message[s], ResultOf(out))]
    /\ UNCHANGED <<srcHeight, commitAt, trusted, receipts, packet, message,
                   calls>>
    /\ UNCHANGED psqlVars

\* The message builder completes (lines 32-39).
BuildReturns(t) ==
    /\ call[t].pc = "build"
    /\ \E out \in build_receive_packet_message(call[t].buildArg.height,
                                               call[t].buildArg.packet) :
         LET s == LocalSlot(t)
             mm == IF out.ok THEN [message EXCEPT ![s] = out.val]
                             ELSE message
             c == [call[t] EXCEPT
                     !.builtMsg = out,
                     !.trace = Append(@, IF out.ok THEN "build_ok"
                                                   ELSE "build_err")]
         IN /\ message' = mm
            /\ call' = [call EXCEPT ![t] =
                          Enter(c, NextStep("build", out.ok), packet[s],
                                source_height[s], mm[s], ResultOf(out))]
    /\ UNCHANGED <<srcHeight, commitAt, trusted, receipts, packet,
                   source_height, calls>>
    /\ UNCHANGED psqlVars

\* IbcMessageSender::send_message hands the message to the chain the sender
\* targets, which executes it; only the destination chain can receive the
\* packet.
SendDelivers(t) ==
    /\ call[t].pc = "send"
    /\ LET m == call[t].sentMsg
           accepted == call[t].sentTo = "destination" /\ DstAccepts(m)
       IN /\ receipts' = IF accepted THEN receipts \cup {m.packet}
                                     ELSE receipts
          /\ call' = [call EXCEPT ![t].pc = "sent",
                                  ![t].subs = @ + 1,
                                  ![t].chainOk = accepted]
    /\ UNCHANGED <<srcHeight, commitAt, trusted, packet, source_height,
                   message, calls>>
    /\ UNCHANGED psqlVars

\* send_message fails before the message reaches the destination chain
\* (lines 36-39).
SendFails(t) ==
    /\ call[t].pc = "send"
    /\ LET s == LocalSlot(t)
           out == Err("ConnectionError")
           c == [call[t] EXCEPT !.sendRet = out,
                                !.trace = Append(@, "send_err")]
       IN call' = [call EXCEPT ![t] =
                     Enter(c, NextStep("send", FALSE), packet[s],
                           source_height[s], message[s], ResultOf(out))]
    /\ UNCHANGED <<srcHeight, commitAt, trusted, receipts, packet,
                   source_height, message, calls>>
    /\ UNCHANGED psqlVars

\* send_message returns the chain's verdict on the message (lines 36-41).
SendReturns(t) ==
    /\ call[t].pc = "sent"
    /\ LET s == LocalSlot(t)
           out == IF call[t].chainOk THEN Ok(0) ELSE Err("TxFailure")
           c == [call[t] EXCEPT
                   !.sendRet = out,
                   !.trace = Append(@, IF out.ok THEN "send_ok"
                                                 ELSE "send_err")]
       IN call' = [call EXCEPT ![t] =
                     Enter(c, NextStep("send", out.ok), packet[s],
                           source_height[s], message[s], ResultOf(out))]
    /\ UNCHANGED <<srcHeight, commitAt, trusted, receipts, packet,
                   source_height, message, calls>>
    /\ UNCHANGED psqlVars

\* The caller drops the future of a call at one of its suspension points.
Abandon(t) ==
    /\ call[t].pc \in {"status", "build", "send", "sent"}
    /\ call' = [call EXCEPT ![t].pc = "dropped", ![t].droppedAt = call[t].pc]
    /\ UNCHANGED <<srcHeight, commitAt, trusted, receipts, packet,
                   source_height, message, calls>>
    /\ UNCHANGED psqlVars

\* The caller has taken the result (or dropped the future): the call's
\* frame is gone and the task may start another call.
Finish(t) ==
    /\ call[t].pc \in {"done", "dropped"}
    /\ call' = [call EXCEPT ![t] = IdleCall]
    /\ packet' = [packet EXCEPT ![LocalSlot(t)] = 0]
    /\ source_height' = [source_height EXCEPT ![LocalSlot(t)] = 0]
    /\ message' = [message EXCEPT ![LocalSlot(t)] = NoMsg]
    /\ UNCHANGED <<srcHeight, commitAt, trusted, receipts, calls>>
    /\ UNCHANGED psqlVars

\* ------------------------------------------------ chain steps
\* The source chain produces a block.
SrcAdvance ==
    /\ srcHeight < MaxHeight
    /\ srcHeight' = srcHeight + 1
    /\ UNCHANGED <<commitAt, trusted, receipts, call, packet, source_height,
                   message, calls>>
    /\ UNCHANGED psqlVars

\* A packet is sent on the source chain: its commitment is written at the
\* current height.
SendPacket(p) ==
    /\ commitAt[p] = 0
    /\ commitAt' = [commitAt EXCEPT ![p] = srcHeight]
    /\ UNCHANGED <<srcHeight, trusted, receipts, call, packet, source_height,
                   message, calls>>
    /\ UNCHANGED psqlVars

\* The destination's client of the source chain is updated to height h.
ClientUpdate(h) ==
    /\ h <= srcHeight
    /\ h \notin trusted
    /\ trusted' = trusted \cup {h}
    /\ UNCHANGED <<srcHeight, commitAt, receipts, call, packet, source_height,
                   message, calls>>
    /\ UNCHANGED psqlVars

\* ------------------------------------------------ PsqlChain (psql.rs)
POk(v) == [ok |-> TRUE, val |-> v, err |-> <<"none", "">>]
PErr(kind, detail) == [ok |-> FALSE, val |-> <<"none", 0>>,
                       err |-> <<kind, detail>>]
PNoRes == PErr("pending", "")

NoLc == <<"none", 0>>
NoConfig == [id |-> "none", psql_conn |-> "none"]
NoReq == [op |-> "none", args |-> [plain |-> 0, lc |-> NoLc]]

ChainIds == {"ibc-0", "ibc-1"}
\* config.psql_conn is an Option: "None" or a connection string.
PsqlConns == {"None", "postgres://db"}
Configs == [id : ChainIds, psql_conn : PsqlConns]
\* Abstract argument values and light client identities.
ArgValues == {1, 2}
LightClientIds == {1, 2}

\* Variant: the wrapped chain is bootstrapped first, the setting is read
\* afterwards.
bootstrap_ChainFirst(config, dbOk, chainRes) ==
    LET boot == [what |-> "CosmosSdkChain::bootstrap", arg |-> config.id]
        conn == [what |-> "connect", arg |-> config.psql_conn]
    IN IF ~chainRes.ok
       THEN [log |-> <<boot>>, ret |-> chainRes]
       ELSE IF config.psql_conn = "None"
       THEN [log |-> <<boot>>,
             ret |-> PErr("MissingConnectionConfig", config.id)]
       ELSE IF ~dbOk
       THEN [log |-> <<boot, conn>>, ret |-> PErr("Sqlx", config.psql_conn)]
       ELSE [log |-> <<boot, conn>>, ret |-> POk(<<"PsqlChain", 0>>)]

\* Variant: a failed database connection does not stop the bootstrap.
bootstrap_IgnoreDbErr(config, dbOk, chainRes) ==
    LET boot == [what |-> "CosmosSdkChain::bootstrap", arg |-> config.id]
        conn == [what |-> "connect", arg |-> config.psql_conn]
    IN IF config.psql_conn = "None"
       THEN [log |-> <<>>,
             ret |-> PErr("MissingConnectionConfig", config.id)]
       ELSE IF ~chainRes.ok
       THEN [log |-> <<conn, boot>>, ret |-> chainRes]
       ELSE [log |-> <<conn, boot>>, ret |-> POk(<<"PsqlChain", 0>>)]

\* PsqlChain::bootstrap (lines 74-91): the external interactions it makes,
\* in order, and what it returns, given whether the database accepts the
\* connection and what the wrapped chain's bootstrap returns.
bootstrap(config, dbOk, chainRes) ==
    LET boot == [what |-> "CosmosSdkChain::bootstrap", arg |-> config.id]
        conn == [what |-> "connect", arg |-> config.psql_conn]
    IN IF config.psql_conn = "None"
       THEN [log |-> <<>>,
             ret |-> PErr("MissingConnectionConfig", config.id)]
       ELSE IF ~dbOk
       THEN [log |-> <<conn>>, ret |-> PErr("Sqlx", config.psql_conn)]
       ELSE IF ~chainRes.ok
       THEN [log |-> <<conn, boot>>, ret |-> chainRes]
       ELSE [log |-> <<conn, boot>>, ret |-> POk(<<"PsqlChain", 0>>)]

\* The method of the wrapped CosmosSdkChain that each PsqlChain method
\* calls (lines 93-387).
Delegate ==
    [init_light_client |-> "init_light_client",
     init_event_monitor |-> "init_event_monitor",
     id |-> "id",
     shutdown |-> "shutdown",
     health_check |-> "health_check",
     keybase |-> "keybase",
     keybase_mut |-> "keybase_mut",
     send_messages_and_wait_commit |-> "send_messages_and_wait_commit",
     send_messages_and_wait_check_tx |-> "send_messages_and_wait_check_tx",
     get_signer |-> "get_signer",
     config |-> "config",
     get_key |-> "get_key",
     add_key |-> "add_key",
     ibc_version |-> "ibc_version",
     query_balance |-> "query_balance",
     query_commitment_prefix |-> "query_commitment_prefix",
     query_application_status |-> "query_application_status",
     query_clients |-> "query_clients",
     query_client_state |-> "query_client_state",
     query_consensus_states |-> "query_consensus_states",
     query_consensus_state |-> "query_consensus_state",
     query_upgraded_client_state |-> "query_upgraded_client_state",
     query_upgraded_consensus_state |-> "query_upgraded_consensus_state",
     query_connections |-> "query_connections",
     query_client_connections |-> "query_client_connections",
     query_connection |-> "query_connection",
     query_connection_channels |-> "query_connection_channels",
     query_channels |-> "query_channels",
     query_channel |-> "query_channel",
     query_channel_client_state |-> "query_channel_client_state",
     query_packet_commitments |-> "query_packet_commitments",
     query_unreceived_packets |-> "query_unreceived_packets",
     query_packet_acknowledgements |-> "query_packet_acknowledgements",
     query_unreceived_acknowledgements |-> "query_unreceived_acknowledgements",
     query_next_sequence_receive |-> "query_next_sequence_receive",
     query_txs |-> "query_txs",
     query_blocks |-> "query_blocks",
     query_host_consensus_state |-> "query_host_consensus_state",
     proven_client_state |-> "proven_client_state",
     proven_connection |-> "proven_connection",
     proven_client_consensus |-> "proven_client_consensus",
     proven_channel |-> "proven_channel",
     proven_packet |-> "proven_packet",
     build_client_state |-> "build_client_state",
     build_consensus_state |-> "build_consensus_state",
     build_header |-> "build_header"]

PsqlOps == DOMAIN Delegate

\* Variant: the two submission methods call each other's counterpart.
InnerMethod_Swapped(op) ==
    IF op = "send_messages_and_wait_commit"
    THEN "send_messages_and_wait_check_tx"
    ELSE IF op = "send_messages_and_wait_check_tx"
    THEN "send_messages_and_wait_commit"
    ELSE Delegate[op]

\* The one call a PsqlChain method makes on `self.chain`.
InnerMethod(op) == Delegate[op]

\* Methods whose return type is not a Result (lines 104, 120, 124, 146).
Infallible == {"id", "keybase", "keybase_mut", "config"}

\* PsqlLightClient(TmLightClient) is a tuple struct around the Tendermint
\* light client (line 390); `.0` is the light client inside.
PsqlLightClient(tm) == <<"Psql", tm[2]>>
Inner0(plc) == <<"Tm", plc[2]>>

\* The arguments the wrapped chain's method is called with: the caller's,
\* with build_header passing `&mut light_client.0` (lines 381-386).
ArgsToInner(op, args) ==
    IF op = "build_header"
    THEN [args EXCEPT !.lc = Inner0(args.lc)]
    ELSE args

\* Variant: health_check hides a failure of the wrapped chain.
ReturnToCaller_Swallow(op, r) ==
    IF op = "init_light_client" /\ r.ok
    THEN POk(PsqlLightClient(r.val))
    ELSE IF op = "health_check" /\ ~r.ok
    THEN POk(<<"val", 1>>)
    ELSE r

\* What PsqlChain returns given what the wrapped chain returned: the same
\* value, with init_light_client mapping an Ok value into PsqlLightClient
\* (line 94).
ReturnToCaller(op, r) ==
    IF op = "init_light_client" /\ r.ok
    THEN POk(PsqlLightClient(r.val))
    ELSE r

\* What the wrapped CosmosSdkChain may return from a method.
InnerOutcomes(op) ==
    (IF op = "init_light_client"
     THEN {POk(<<"Tm", l>>) : l \in LightClientIds}
     ELSE {POk(<<"val", v>>) : v \in ArgValues})
    \cup (IF op \in Infallible THEN {}
          ELSE {PErr("QueryError", ""), PErr("TxFailure", "")})

\* PsqlChain::bootstrap(config, rt).
Bootstrap(config, dbOk, chainRes) ==
    /\ psql # "up"
    /\ LET b == bootstrap(config, dbOk, chainRes)
       IN /\ bootReq' = config
          /\ bootLog' = b.log
          /\ bootRet' = b.ret
          /\ bootIn' = [dbOk |-> dbOk, chainRes |-> chainRes]
          /\ psql' = IF b.ret.ok THEN "up" ELSE "none"
    /\ req' = NoReq
    /\ innerLog' = <<>>
    /\ innerRet' = PNoRes
    /\ ret' = PNoRes
    /\ UNCHANGED lcVars
    /\ UNCHANGED relayVars

\* Any other ChainEndpoint method called on a PsqlChain (lines 93-387).
PsqlCall(op, a, l, r) ==
    /\ psql = "up"
    /\ LET args == [plain |-> a,
                    lc |-> IF op = "build_header" THEN <<"Psql", l>>
                                                  ELSE NoLc]
       IN /\ req' = [op |-> op, args |-> args]
          /\ innerLog' = <<[op |-> InnerMethod(op),
                            args |-> ArgsToInner(op, args)]>>
    /\ innerRet' = r
    /\ ret' = ReturnToCaller(op, r)
    /\ psql' = IF op = "shutdown" THEN "down" ELSE psql
    /\ UNCHANGED <<bootReq, bootLog, bootRet, bootIn>>
    /\ UNCHANGED lcVars
    /\ UNCHANGED relayVars

\* ------------------------------------------------ PsqlLightClient
MaxLcHeight == 2
LcHeights == 1..MaxLcHeight
\* Threads that may hold a reference to a light client.
Callers == {1, 2}

\* The method of the wrapped Tendermint light client that each
\* PsqlLightClient method calls (lines 393-421).
LcDelegate ==
    [header_and_minimal_set |-> "header_and_minimal_set",
     verify |-> "verify",
     check_misbehaviour |-> "check_misbehaviour",
     fetch |-> "fetch"]

LcMethods == DOMAIN LcDelegate

\* The operations that take a `&mut PsqlLightClient`: its own methods and
\* PsqlChain::build_header (line 379).
LcOps == LcMethods \cup {"build_header"}

\* Abstract arguments: (trusted, target) of header_and_minimal_set, verify
\* and build_header, (update, client_state) of check_misbehaviour, (height)
\* of fetch.  The trusted height is the store's first height.
LcArgs == [trusted : {1}, target : LcHeights]

IdleLcCall == [pc |-> "idle", method |-> "none", lc |-> 0,
               args |-> [trusted |-> 0, target |-> 0], snap |-> 0,
               innerLog |-> <<>>, innerRet |-> PNoRes, ret |-> PNoRes]

\* Variant: the methods take a shared reference, so callers are not excluded.
CanBorrowMut_Shared(lc) == TRUE

\* Every method takes `&mut self` (lines 394, 403, 412, 419): a call can
\* start only while nobody else holds the light client.
CanBorrowMut(lc) == lcBusy[lc] = 0

\* The call made on `self.0` by a PsqlLightClient method (lines 399, 408,
\* 416, 420), or on `self.chain` by build_header, which hands over the light
\* client it was given (lines 381-386).
LcInnerCall(m, lc, args) ==
    IF m = "build_header"
    THEN [method |-> InnerMethod(m),
          lc |-> ArgsToInner(m, [plain |-> 0, lc |-> <<"Psql", lc>>]).lc,
          args |-> args]
    ELSE [method |-> LcDelegate[m], lc |-> Inner0(<<"Psql", lc>>),
          args |-> args]

\* Variant: an error of the wrapped light client is turned into an empty
\* success.
LcReturn_Swallow(m, r) == IF r.ok THEN r ELSE POk(<<"val", 0>>)

\* The operation returns what the wrapped object returned.
LcReturn(m, r) == IF m = "build_header" THEN ReturnToCaller(m, r) ELSE r

\* What the Tendermint light client may return.
LcInnerOutcomes(args) ==
    {POk(<<"val", args.target>>), PErr("InsufficientTrust", "")}

\* The Tendermint light client's store after a call that saw it at `snap`:
\* a successful header_and_minimal_set (also when made by the wrapped
\* chain's build_header) records the target height.
LcStoreAfter(m, snap, args, r) ==
    IF m \in {"header_and_minimal_set", "build_header"} /\ r.ok
       /\ args.target > snap
    THEN args.target
    ELSE snap

\* An operation on a PsqlLightClient is entered by caller c on light
\* client lc.
LcBegin(c, m, lc, args) ==
    /\ lcCall[c].pc # "running"
    /\ CanBorrowMut(lc)
    /\ lcBusy' = [lcBusy EXCEPT ![lc] = c]
    /\ lcCall' = [lcCall EXCEPT ![c] =
                    [pc |-> "running", method |-> m, lc |-> lc,
                     args |-> args, snap |-> lcStore[lc],
                     innerLog |-> <<LcInnerCall(m, lc, args)>>,
                     innerRet |-> PNoRes, ret |-> PNoRes]]
    /\ UNCHANGED lcStore
    /\ UNCHANGED <<psql, bootReq, bootLog, bootRet, req, innerLog, innerRet,
                   ret, bootIn>>
    /\ UNCHANGED relayVars

\* The wrapped light client returns and so does the method.
LcEnd(c, r) ==
    /\ lcCall[c].pc = "running"
    /\ LET k == lcCall[c]
       IN /\ lcStore' = [lcStore EXCEPT ![k.lc] =
                           LcStoreAfter(k.method, k.snap, k.args, r)]
          /\ lcBusy' = [lcBusy EXCEPT ![k.lc] = IF @ = c THEN 0 ELSE @]
          /\ lcCall' = [lcCall EXCEPT ![c].pc = "returned",
                                      ![c].innerRet = r,
                                      ![c].ret = LcReturn(k.method, r)]
    /\ UNCHANGED <<psql, bootReq, bootLog, bootRet, req, innerLog, innerRet,
                   ret, bootIn>>
    /\ UNCHANGED relayVars

\* No light client is in use; each store holds its first height.
LcInit ==
    /\ lcBusy = [l \in LightClientIds |-> 0]
    /\ lcCall = [c \in Callers |-> IdleLcCall]
    /\ lcStore = [l \in LightClientIds |-> 1]

\* No PsqlChain has been constructed.
PsqlInit ==
    /\ psql = "none"
    /\ bootReq = NoConfig
    /\ bootLog = <<>>
    /\ bootRet = PNoRes
    /\ req = NoReq
    /\ innerLog = <<>>
    /\ innerRet = PNoRes
    /\ ret = PNoRes
    /\ bootIn = [dbOk |-> FALSE, chainRes |-> PNoRes]
    /\ LcInit

\* The source chain is at its first height; the destination's client was
\* created from that height; no call is in progress.
RelayInit ==
    /\ srcHeight = 1
    /\ commitAt = [p \in Packets |-> 0]
    /\ trusted = {1}
    /\ receipts = {}
    /\ call = [t \in Tasks |-> IdleCall]
    /\ packet = [t \in Tasks |-> 0]
    /\ source_height = [t \in Tasks |-> 0]
    /\ message = [t \in Tasks |-> NoMsg]
    /\ calls = 0

Init == RelayInit /\ PsqlInit

Next ==
    \/ \E t \in Tasks : \E p \in Packets : RelayPacket(t, p)
    \/ \E t \in Tasks : StatusReturns(t)
    \/ \E t \in Tasks : BuildReturns(t)
    \/ \E t \in Tasks : SendDelivers(t)
    \/ \E t \in Tasks : SendFails(t)
    \/ \E t \in Tasks : SendReturns(t)
    \/ \E t \in Tasks : Abandon(t)
    \/ \E t \in Tasks : Finish(t)
    \/ SrcAdvance
    \/ \E p \in Packets : SendPacket(p)
    \/ \E h \in Heights : ClientUpdate(h)

Spec == Init /\ [][Next]_vars

PsqlNext ==
    \/ \E config \in Configs : \E dbOk \in BOOLEAN :
         \E chainRes \in {POk(<<"CosmosSdkChain", 0>>),
                          PErr("ConnectionError", config.id)} :
            Bootstrap(config, dbOk, chainRes)
    \/ \E op \in PsqlOps : \E a \in ArgValues : \E l \in LightClientIds :
         \E r \in InnerOutcomes(op) :
            PsqlCall(op, a, l, r)

PsqlSpec == Init /\ [][PsqlNext]_vars

\* A PsqlChain has been bootstrapped and has handed out its light clients.
LcStart ==
    /\ RelayInit
    /\ LcInit
    /\ psql = "up"
    /\ \E config \in {[id |-> "ibc-0", psql_conn |-> "postgres://db"]} :
         LET b == bootstrap(config, TRUE, POk(<<"CosmosSdkChain", 0>>))
         IN /\ bootReq = config
            /\ bootLog = b.log
            /\ bootRet = b.ret
            /\ bootIn = [dbOk |-> TRUE,
                         chainRes |-> POk(<<"CosmosSdkChain", 0>>)]
    /\ req = NoReq
    /\ innerLog = <<>>
    /\ innerRet = PNoRes
    /\ ret = PNoRes

LcNext ==
    \/ \E c \in Callers : \E m \in LcOps : \E lc \in LightClientIds :
         \E args \in LcArgs : LcBegin(c, m, lc, args)
    \/ \E c \in Callers : \E r \in LcInnerOutcomes(lcCall[c].args) :
         LcEnd(c, r)

LcSpec == LcStart /\ [][LcNext]_vars

\* ---------------------------------------------------------------- claims
CountOf(seq, e) == Cardinality({i \in 1..Len(seq) : seq[i] = e})
Has(seq, e) == \E i \in 1..Len(seq) : seq[i] = e

\* C1 (as claimed): the height the message builder is invoked with is a
\* source height the destination's client already trusts; in particular it
\* is never the source's own current height when that height is untrusted.
C1_BuilderHeightTrusted ==
    \A t \in Tasks :
        call[t].pc = "build" => call[t].buildArg.height \in trusted

\* C2 (as claimed): when the packet's commitment exists at the source's
\* current height but at no height the destination's client trusts, the call
\* for that packet ends with an error and hands no message to the sender.
C2_Scenario(t) ==
    /\ call[t].pc # "idle"
    /\ commitAt[call[t].argPacket] # 0
    /\ commitAt[call[t].argPacket] <= srcHeight
    /\ \A h \in trusted : h < commitAt[call[t].argPacket]

C2_NoUnverifiableSubmission ==
    \A t \in Tasks :
        C2_Scenario(t) =>
            /\ call[t].subs = 0
            /\ ~Has(call[t].trace, "send")
            /\ call[t].pc = "done" => ~call[t].result.ok

\* C3: one call invokes the sender at most once; exactly once (and the
\* message reaches the chain once) when it returns Ok; never when the status
\* query or the build failed.
C3_SubmissionCount ==
    \A t \in Tasks :
        LET n == CountOf(call[t].trace, "send")
        IN /\ n <= 1
           /\ call[t].subs <= n
           /\ (call[t].pc = "done" /\ call[t].result.ok)
                 => (n = 1 /\ call[t].subs = 1)
           /\ (Has(call[t].trace, "status_err")
                 \/ Has(call[t].trace, "build_err"))
                 => (n = 0 /\ call[t].subs = 0)

C3_Witness ==
    \E t1, t2 \in Tasks :
        /\ call[t1].pc = "done" /\ call[t1].result.ok /\ call[t1].subs = 1
        /\ call[t2].pc = "done" /\ Has(call[t2].trace, "build_err")

\* C4: within one call the build is issued only right after the status
\* query returned successfully, and the send only right after the build
\* returned successfully.
C4_StepOrder ==
    \A t \in Tasks :
        LET tr == call[t].trace
        IN /\ (tr # <<>> => tr[1] = "status")
           /\ \A i \in 1..Len(tr) :
                /\ tr[i] = "build" => (i > 1 /\ tr[i-1] = "status_ok")
                /\ tr[i] = "send" => (i > 2 /\ tr[i-1] = "build_ok"
                                      /\ Has(SubSeq(tr, 1, i-1), "status_ok"))
           /\ call[t].pc = "build" => call[t].statusRet.ok
           /\ call[t].pc \in {"send", "sent"} => call[t].builtMsg.ok

C4_Witness ==
    \E t \in Tasks :
        call[t].trace = <<"status", "status_ok", "build", "build_ok",
                          "send", "send_ok">>

\* C5: no step is invoked twice in one call, and a failed step ends the call
\* at once with that step's own error as the call's result.
FailedWith(c) ==
    IF Has(c.trace, "status_err") THEN c.statusRet.err
    ELSE IF Has(c.trace, "build_err") THEN c.builtMsg.err
    ELSE IF Has(c.trace, "send_err") THEN c.sendRet.err
    ELSE "none"

C5_NoRetryErrorUnchanged ==
    \A t \in Tasks :
        LET c == call[t]
        IN /\ CountOf(c.trace, "status") <= 1
           /\ CountOf(c.trace, "build") <= 1
           /\ CountOf(c.trace, "send") <= 1
           /\ FailedWith(c) # "none" =>
                /\ c.pc \in {"done", "dropped"}
                /\ c.trace[Len(c.trace)] \in {"status_err", "build_err",
                                              "send_err"}
                /\ c.pc = "done" => c.result = Err(FailedWith(c))

C5_Witness ==
    \E t1, t2 \in Tasks :
        /\ call[t1].pc = "done" /\ call[t1].result = Err("PacketNotFound")
        /\ call[t2].pc = "done" /\ call[t2].result = Err("TxFailure")

\* C6 (as claimed): once a call for a packet that has a commitment on the
\* source has run to completion, its message submitted, the destination
\* holds the packet's receipt.
C6_ReceiptAfterRelay ==
    \A t \in Tasks :
        (/\ call[t].pc = "done"
         /\ commitAt[call[t].argPacket] # 0
         /\ call[t].subs >= 1)
            => call[t].argPacket \in receipts

\* C9: no step of a call before its send changes the destination chain or
\* counts as a submission, so a call abandoned during the status query or the
\* build has submitted nothing; abandoning a call after its message reached
\* the chain leaves the submission and the chain state in place.
BeforeSend(c) ==
    \/ c.pc \in {"status", "build"}
    \/ c.pc = "dropped" /\ c.droppedAt \in {"status", "build"}

C9_AbandonStep ==
    \A t \in Tasks :
        /\ (call'[t] # call[t] /\ BeforeSend(call'[t])) =>
              /\ receipts' = receipts
              /\ trusted' = trusted
              /\ call'[t].subs = 0
        /\ (call[t].pc = "sent" /\ call'[t].pc = "dropped") =>
              /\ receipts' = receipts
              /\ call'[t].subs = call[t].subs
              /\ call'[t].subs = 1

C9_Abandon == [][C9_AbandonStep]_vars

C9_Witness ==
    \E t1, t2 \in Tasks :
        /\ call[t1].pc = "dropped" /\ call[t1].droppedAt = "build"
        /\ call[t1].subs = 0
        /\ call[t2].pc = "dropped" /\ call[t2].droppedAt = "sent"
        /\ call[t2].subs = 1 /\ call[t2].argPacket \in receipts

\* C10: under every interleaving each call builds from its own packet and
\* from the height its own status query returned, and sends the message its
\* own build returned.
C10_NoInterference ==
    \A t \in Tasks :
        LET c == call[t]
        IN /\ Has(c.trace, "build") =>
                /\ c.statusRet.ok
                /\ c.buildArg = [packet |-> c.argPacket,
                                 height |-> c.statusRet.val.height]
           /\ Has(c.trace, "send") =>
                /\ c.builtMsg.ok
                /\ c.sentMsg = c.builtMsg.val
                /\ c.sentMsg.packet = c.argPacket

C10_Witness ==
    \E t1, t2 \in Tasks :
        /\ call[t1].pc = "sent" /\ call[t2].pc = "sent"
        /\ call[t1].argPacket # call[t2].argPacket
        /\ call[t1].sentMsg.height # call[t2].sentMsg.height

\* C7: every method of PsqlChain other than bootstrap calls the same method
\* of the wrapped chain exactly once with the caller's arguments and returns
\* what the wrapped chain returned; an error of the wrapped chain is returned
\* as that error.  (The light client crosses the boundary through the
\* PsqlLightClient tuple struct: build_header passes the light client inside
\* it, init_light_client returns the wrapped chain's light client inside it.)
C7_TransparentDecorator ==
    req.op # "none" =>
        /\ Len(innerLog) = 1
        /\ innerLog[1].op = req.op
        /\ innerLog[1].args.plain = req.args.plain
        /\ innerLog[1].args.lc[2] = req.args.lc[2]
        /\ req.op # "build_header" => innerLog[1].args = req.args
        /\ ret.ok = innerRet.ok
        /\ ret.err = innerRet.err
        /\ ret.val[2] = innerRet.val[2]
        /\ req.op # "init_light_client" => ret = innerRet

C7_Witness ==
    /\ req.op = "send_messages_and_wait_commit"
    /\ ~innerRet.ok
    /\ ret = PErr("TxFailure", "")
    /\ Len(innerLog) = 1

\* C8: bootstrap with a configuration without psql_conn returns the
\* missing-configuration error, having opened no database connection and
\* not having bootstrapped the wrapped chain.
C8_MissingConfigFirst ==
    bootReq.psql_conn = "None" =>
        /\ bootRet = PErr("MissingConnectionConfig", bootReq.id)
        /\ bootLog = <<>>
        /\ psql # "up"

C8_Witness ==
    /\ bootReq.psql_conn = "None"
    /\ bootRet = PErr("MissingConnectionConfig", "ibc-1")

\* C11: the engine does not deduplicate: a message that was built is always
\* handed to the sender and submitted, also when the destination already
\* holds the packet's receipt; submitting a message for a packet that already
\* has a receipt leaves the destination's state as it was.
C11_Step ==
    \A t \in Tasks :
        /\ (call[t].pc = "build" /\ call'[t].builtMsg.ok) =>
              /\ call'[t].pc = "send"
              /\ call'[t].sentMsg = call'[t].builtMsg.val
        /\ (call[t].pc = "send" /\ call'[t].pc = "sent") =>
              /\ call'[t].subs = call[t].subs + 1
              /\ trusted' = trusted
              /\ receipts' \subseteq receipts \cup {call[t].sentMsg.packet}
              /\ call[t].sentMsg.packet \in receipts => receipts' = receipts
              /\ call[t].sentMsg.packet \in receipts => ~call'[t].chainOk

C11_NoDedupIdempotent == [][C11_Step]_vars

C11_Witness ==
    \E t1, t2 \in Tasks :
        /\ t1 # t2
        /\ call[t1].sentMsg = call[t2].sentMsg
        /\ call[t1].sentMsg.packet \in receipts
        /\ call[t1].subs = 1 /\ call[t2].subs = 1
        /\ call[t1].chainOk /\ ~call[t2].chainOk
        /\ call[t1].pc = "done" /\ call[t1].result.ok
        /\ call[t2].pc = "done" /\ call[t2].result = Err("TxFailure")

\* C13: every call queries the status itself and builds its own message:
\* a call starts with nothing carried over, the height it builds with and
\* the proof height of the message it builds and sends are the height its
\* own status query returned, whatever an earlier call used.
C13_FreshPerCall ==
    \A t \in Tasks :
        LET c == call[t]
        IN /\ c.pc = "status" =>
                /\ c.statusRet = NoRes /\ c.buildArg = NoMsg
                /\ c.builtMsg = NoRes /\ c.sentMsg = NoMsg
                /\ source_height[LocalSlot(t)] = 0
                /\ message[LocalSlot(t)] = NoMsg
           /\ Has(c.trace, "build") =>
                /\ c.trace[1] = "status" /\ c.trace[2] = "status_ok"
                /\ c.statusRet.ok
                /\ c.buildArg.height = c.statusRet.val.height
           /\ c.builtMsg.ok =>
                c.builtMsg.val.height = c.statusRet.val.height
           /\ Has(c.trace, "send") =>
                c.sentMsg.height = c.statusRet.val.height

C13_Witness ==
    \E t1, t2 \in Tasks :
        /\ calls = 2
        /\ call[t1].pc = "done" /\ call[t1].result = Err("PacketNotFound")
        /\ call[t2].argPacket = call[t1].argPacket
        /\ call[t2].pc = "done" /\ call[t2].result.ok
        /\ call[t2].statusRet.val.height # call[t1].statusRet.val.height
        /\ call[t2].sentMsg.height = call[t2].statusRet.val.height

\* C17: a finished call returned Ok exactly when its status query, its
\* build and its send all succeeded; the message handed to the sender is the
\* one the builder returned for this call's packet and height, unchanged,
\* and the sender it is handed to is the one targeting the destination.
C17_OkIffAllSucceeded ==
    \A t \in Tasks :
        LET c == call[t]
        IN /\ c.pc = "done" =>
                /\ c.result.ok <=>
                     (c.statusRet.ok /\ c.builtMsg.ok /\ c.sendRet.ok)
                /\ c.result.ok => c.result = Ok(0)
           /\ Has(c.trace, "send") =>
                /\ c.builtMsg.ok
                /\ c.sentMsg = c.builtMsg.val
                /\ c.builtMsg.val = [packet |-> c.argPacket,
                                     height |-> c.statusRet.val.height]
                /\ c.sentTo = "destination"
           /\ ~Has(c.trace, "send") => c.sentTo = "none"

C17_Witness ==
    \E t1, t2 \in Tasks :
        /\ call[t1].pc = "done" /\ call[t1].result.ok
        /\ call[t1].sentMsg = [packet |-> call[t1].argPacket, height |-> 2]
        /\ call[t1].sentTo = "destination"
        /\ call[t2].pc = "done" /\ ~call[t2].result.ok
        /\ call[t2].statusRet.ok /\ call[t2].builtMsg.ok
        /\ ~call[t2].sendRet.ok

\* C12: calls on one PsqlLightClient never overlap: while a call runs, its
\* caller alone holds the light client and the store is as the call found
\* it, so the height recorded by a finished header_and_minimal_set is never
\* lost to another call.
C12_Exclusive ==
    /\ \A c1, c2 \in Callers :
         (c1 # c2 /\ lcCall[c1].pc = "running" /\ lcCall[c2].pc = "running")
            => lcCall[c1].lc # lcCall[c2].lc
    /\ \A c \in Callers :
         lcCall[c].pc = "running" =>
            /\ lcBusy[lcCall[c].lc] = c
            /\ lcCall[c].snap = lcStore[lcCall[c].lc]
    /\ \A l \in LightClientIds :
         lcBusy[l] # 0 =>
            (lcCall[lcBusy[l]].pc = "running" /\ lcCall[lcBusy[l]].lc = l)
    /\ \A c \in Callers :
         (/\ lcCall[c].pc = "returned"
          /\ lcCall[c].method = "header_and_minimal_set"
          /\ lcCall[c].ret.ok)
            => lcStore[lcCall[c].lc] >= lcCall[c].args.target

C12_Witness ==
    \E c1, c2 \in Callers :
        /\ c1 # c2
        /\ lcCall[c1].method = "header_and_minimal_set"
        /\ lcCall[c2].method = "header_and_minimal_set"
        /\ lcCall[c1].lc = lcCall[c2].lc
        /\ lcCall[c1].pc = "returned" /\ lcCall[c1].ret.ok
        /\ lcCall[c1].args.target = 2
        /\ lcCall[c2].pc = "running" /\ lcCall[c2].snap = 2

\* C14: bootstrap reads psql_conn, then connects the pool, then bootstraps
\* the wrapped chain: a failed connection is an error and the wrapped chain
\* is not bootstrapped; a failed bootstrap of the wrapped chain is returned
\* as it is; a PsqlChain exists only when all three steps succeeded.
C14_BootstrapOrder ==
    bootReq # NoConfig =>
        LET conn == [what |-> "connect", arg |-> bootReq.psql_conn]
            boot == [what |-> "CosmosSdkChain::bootstrap",
                     arg |-> bootReq.id]
            has == bootReq.psql_conn # "None"
        IN /\ bootLog \in {<<>>, <<conn>>, <<conn, boot>>}
           /\ (has /\ ~bootIn.dbOk) =>
                /\ ~bootRet.ok
                /\ bootRet.err[1] = "Sqlx"
                /\ bootLog = <<conn>>
           /\ (has /\ bootIn.dbOk /\ ~bootIn.chainRes.ok) =>
                /\ bootRet = bootIn.chainRes
                /\ bootLog = <<conn, boot>>
           /\ bootRet.ok <=> (has /\ bootIn.dbOk /\ bootIn.chainRes.ok)
           /\ bootRet.ok => bootLog = <<conn, boot>>
           /\ psql \in {"up", "down"} => bootRet.ok

C14_Witness ==
    /\ bootReq.psql_conn = "postgres://db"
    /\ bootIn.dbOk
    /\ bootRet = PErr("ConnectionError", "ibc-1")
    /\ Len(bootLog) = 2
    /\ psql = "none"

\* C15: send_messages_and_wait_commit calls the wrapped chain's commit
\* variant once with the batch and nothing else; send_messages_and_wait_
\* check_tx calls the check_tx variant once with the batch and nothing else.
Submits == {"send_messages_and_wait_commit", "send_messages_and_wait_check_tx"}

C15_VariantsDistinct ==
    req.op \in Submits =>
        /\ innerLog = <<[op |-> req.op, args |-> req.args]>>
        /\ \A i \in 1..Len(innerLog) :
              innerLog[i].op \in Submits => innerLog[i].op = req.op
        /\ ret = innerRet

C15_Witness ==
    /\ req.op = "send_messages_and_wait_check_tx"
    /\ req.args.plain = 2
    /\ innerLog[1].op = "send_messages_and_wait_check_tx"
    /\ ret.ok

\* C16: each PsqlLightClient method calls the same method of the light
\* client it wraps, once, with its own arguments, and returns that result or
\* error as it is; build_header hands the wrapped chain the light client
\* inside the PsqlLightClient it was given.
C16_LightClientTransparent ==
    \A c \in Callers :
        LET k == lcCall[c]
        IN k.pc # "idle" =>
             /\ Len(k.innerLog) = 1
             /\ k.innerLog[1].method = k.method
             /\ k.innerLog[1].lc = <<"Tm", k.lc>>
             /\ k.innerLog[1].args = k.args
             /\ k.pc = "running" => k.ret = PNoRes
             /\ k.pc = "returned" => (k.ret = k.innerRet /\ k.ret # PNoRes)

C16_Witness ==
    \E c1, c2 \in Callers :
        /\ lcCall[c1].pc = "returned" /\ lcCall[c1].method = "verify"
        /\ lcCall[c1].ret = PErr("InsufficientTrust", "")
        /\ lcCall[c2].pc = "returned" /\ lcCall[c2].method = "build_header"
        /\ lcCall[c2].innerLog[1].lc = <<"Tm", lcCall[c2].lc>>
        /\ lcCall[c2].ret.ok

====
